---------------------------- MODULE Spec2Model ----------------------------
(***************************************************************************)
(* Model of the US economic-indicator bot: the FRED collector              *)
(* (src/fred_collector.py), the rule-based analyzer (src/analyzer.py) and  *)
(* the Flask trigger endpoints (src/main.py).                              *)
(*                                                                         *)
(* Numbers.  Every indicator value, threshold and percent change is kept   *)
(* in hundredths: 4.5 is 450, -0.5 is -50, a percent change of 0.25 is 25. *)
(* The collector rounds percent changes to two decimals, so hundredths are *)
(* exact; the products percent*12 and percent*4 meet the analyzer's        *)
(* breakpoints only at percents that are exact binary fractions (0.25,     *)
(* 0.5, 0.75), so integer comparison agrees with the float comparison.     *)
(*                                                                         *)
(* Strings.  A Python string that the code searches with `in` is a         *)
(* sequence of tokens, one per Hangul syllable (romanised) or ASCII        *)
(* character; an emoji or an ASCII parenthesis group that no marker can    *)
(* match is one token.  Strings that are only compared or returned are     *)
(* plain strings holding an English rendering of the Korean text.          *)
(***************************************************************************)
EXTENDS Integers, Sequences, FiniteSets, TLC

VARIABLES pc, snap, idx, arg, call, out, day, hits, cycles, built, attempts, resp

vars == <<pc, snap, idx, arg, call, out, day, hits, cycles, built, attempts, resp>>

(***************************************************************************)
(* Python values                                                           *)
(***************************************************************************)
\* a float, in hundredths
Num(n) == [kind |-> "num", n |-> n]

\* the key is not in the dict
Missing == [kind |-> "missing", n |-> 0]

\* the key is there and holds None
None == [kind |-> "None", n |-> 0]

\* the key is there and holds a non-numeric string
Str == [kind |-> "str", n |-> 0]

\* 'change': a dict with 'percent' (hundredths of a percent point)
Change(p) == [kind |-> "dict", n |-> p]

NoRaise == "none"

Abs(n) == IF n < 0 THEN -n ELSE n

\* s[1..n]
Take(s, n) == SubSeq(s, 1, IF n < Len(s) THEN n ELSE Len(s))

\* Python's `marker in text` on token sequences
Contains(marker, text) ==
    \E i \in 0..(Len(text) - Len(marker)) :
        \A j \in 1..Len(marker) : text[i + j] = marker[j]

(***************************************************************************)
(* FREDCollector.indicators: series id -> display name, in dict order      *)
(***************************************************************************)
SeriesIds ==
    << "DFF", "DGS10", "DGS2", "T10Y2Y",
       "UNRATE", "PAYEMS", "ICSA", "CIVPART",
       "CPIAUCSL", "CPILFESL", "PCEPI", "PPIACO", "IR", "IQ",
       "GDPC1", "RSXFS", "INDPRO",
       "MANEMP", "NMFBAI", "DGORDER", "NEWORDER",
       "HOUST", "MORTGAGE30US",
       "UMCSENT", "SAHMREALTIME", "CFNAI" >>

indicators(id) ==
    CASE id = "DFF"          -> <<"yeon", "bang", "gi", "geum", "geum", "ri">>
      [] id = "DGS10"        -> <<"1", "0", "nyeon", " ", "guk", "chae", "su", "ik", "ryul">>
      [] id = "DGS2"         -> <<"2", "nyeon", " ", "guk", "chae", "su", "ik", "ryul">>
      [] id = "T10Y2Y"       -> <<"1", "0", "nyeon", "-", "2", "nyeon", " ", "seu", "peu", "re", "deu">>
      [] id = "UNRATE"       -> <<"sil", "eop", "ryul">>
      [] id = "PAYEMS"       -> <<"bi", "nong", "eop", "go", "yong">>
      [] id = "ICSA"         -> <<"sin", "gyu", "sil", "eop", "su", "dang", "cheong", "gu">>
      [] id = "CIVPART"      -> <<"gyeong", "je", "hwal", "dong", "cham", "ga", "yul">>
      [] id = "CPIAUCSL"     -> <<"C", "P", "I">>
      [] id = "CPILFESL"     -> <<"geun", "won", "C", "P", "I">>
      [] id = "PCEPI"        -> <<"P", "C", "E", "mul", "ga", "ji", "su">>
      [] id = "PPIACO"       -> <<"P", "P", "I", "(", "saeng", "san", "ja", "mul", "ga", ")">>
      [] id = "IR"           -> <<"su", "ip", "mul", "ga", "ji", "su">>
      [] id = "IQ"           -> <<"su", "chul", "mul", "ga", "ji", "su">>
      [] id = "GDPC1"        -> <<"sil", "jil", "G", "D", "P">>
      [] id = "RSXFS"        -> <<"so", "mae", "pan", "mae">>
      [] id = "INDPRO"       -> <<"san", "eop", "saeng", "san", "ji", "su">>
      [] id = "MANEMP"       -> <<"I", "S", "M", " ", "je", "jo", "eop", "ji", "su">>
      [] id = "NMFBAI"       -> <<"I", "S", "M", " ", "seo", "bi", "seu", "eop", "ji", "su">>
      [] id = "DGORDER"      -> <<"nae", "gu", "jae", "ju", "mun">>
      [] id = "NEWORDER"     -> <<"je", "jo", "eop", "sin", "gyu", "ju", "mun">>
      [] id = "HOUST"        -> <<"ju", "taek", "chak", "gong">>
      [] id = "MORTGAGE30US" -> <<"3", "0", "nyeon", "mo", "gi", "ji", "geum", "ri">>
      [] id = "UMCSENT"      -> <<"mi", "si", "gan", "so", "bi", "ja", "sin", "roe">>
      [] id = "SAHMREALTIME" -> <<"S", "a", "h", "m", " ", "R", "u", "l", "e">>
      [] id = "CFNAI"        -> <<"si", "ka", "go", "yeon", "jun", "gyeong", "gi", "ji", "su">>

(***************************************************************************)
(* EconomicAnalyzer.thresholds (hundredths)                                *)
(***************************************************************************)
ThresholdIds ==
    {"UNRATE", "CPIAUCSL", "PPIACO", "DFF", "T10Y2Y", "SAHMREALTIME", "ICSA", "MANEMP", "NMFBAI"}

thresholds(id) ==
    CASE id = "UNRATE"       -> [critical |-> 500, warning |-> 450, normal |-> 350]
      [] id = "CPIAUCSL"     -> [critical |-> 400, warning |-> 300, normal |-> 200]
      [] id = "PPIACO"       -> [critical |-> 500, warning |-> 350, normal |-> 200]
      [] id = "DFF"          -> [critical |-> 500, warning |-> 400, normal |-> 200]
      [] id = "T10Y2Y"       -> [critical |-> -50, warning |-> 0, normal |-> 100]
      [] id = "SAHMREALTIME" -> [critical |-> 50, warning |-> 30, normal |-> 10]
      [] id = "ICSA"         -> [critical |-> 30000000, warning |-> 25000000, normal |-> 20000000]
      [] id = "MANEMP"       -> [critical |-> 4500, warning |-> 4800, normal |-> 5000]
      [] id = "NMFBAI"       -> [critical |-> 4500, warning |-> 4800, normal |-> 5000]

\* the ids the tier rule treats as lower-is-worse
LowerIsWorseIds == {"T10Y2Y"}

(***************************************************************************)
(* Per-indicator interpretation texts (analyzer.py 327-504)                *)
(***************************************************************************)
\* change.get('percent', 0) if change else 0
PercentOf(change) == IF change.kind = "dict" THEN change.n ELSE 0

_interpret_unemployment(v) ==
    IF v < 350 THEN "full employment - wage pressure"
    ELSE IF v < 400 THEN "healthy labour market"
    ELSE IF v < 500 THEN "labour market slowing"
    ELSE "labour market worsening - recession concern"

_interpret_inflation(v, change) ==
    LET annual_estimate == PercentOf(change) * 12
    IN  IF annual_estimate > 300 THEN "inflation pressure rising"
        ELSE IF annual_estimate > 200 THEN "near target"
        ELSE IF annual_estimate > 100 THEN "stable price rise"
        ELSE "deflation concern"

_interpret_fed_rate(v) ==
    IF v >= 500 THEN "tight monetary policy"
    ELSE IF v >= 300 THEN "neutral monetary policy"
    ELSE IF v >= 100 THEN "easy monetary policy"
    ELSE "ultra-easy monetary policy"

_interpret_gdp(v, change) ==
    LET growth_estimate == PercentOf(change) * 4
    IN  IF growth_estimate > 300 THEN "strong growth"
        ELSE IF growth_estimate > 200 THEN "healthy growth"
        ELSE IF growth_estimate > 0 THEN "growth slowing"
        ELSE "contraction"

_interpret_yield_curve(v) ==
    IF v < -50 THEN "severe inversion - recession imminent"
    ELSE IF v < 0 THEN "yield inversion - recession warning"
    ELSE IF v < 50 THEN "flattening - slowdown signal"
    ELSE "normal yield curve"

_interpret_sahm_rule(v) ==
    IF v >= 50 THEN "recession entered (Sahm Rule triggered)"
    ELSE IF v >= 30 THEN "recession warning level"
    ELSE IF v >= 20 THEN "labour market weakening"
    ELSE "normal level"

_interpret_jobless_claims(v) ==
    IF v > 30000000 THEN "claims surging - labour market worsening"
    ELSE IF v > 25000000 THEN "claims rising"
    ELSE IF v > 20000000 THEN "normal range"
    ELSE "low claims - strong employment"

_interpret_retail_sales(change) ==
    LET pct == PercentOf(change)
    IN  IF pct > 100 THEN "strong consumption growth"
        ELSE IF pct > 0 THEN "consumption growing"
        ELSE IF pct > -100 THEN "consumption slowing"
        ELSE "consumption shrinking"

_interpret_housing_starts(v) ==
    IF v > 150000 THEN "housing boom"
    ELSE IF v > 130000 THEN "active home building"
    ELSE IF v > 110000 THEN "normal building activity"
    ELSE "housing slowdown"

_interpret_consumer_sentiment(v) ==
    IF v > 10000 THEN "optimistic sentiment"
    ELSE IF v > 9000 THEN "positive sentiment"
    ELSE IF v > 8000 THEN "neutral sentiment"
    ELSE "pessimistic sentiment"

_interpret_ism_manufacturing(v) ==
    IF v >= 6000 THEN "manufacturing strong expansion"
    ELSE IF v >= 5500 THEN "manufacturing expansion"
    ELSE IF v >= 5000 THEN "manufacturing mild expansion"
    ELSE IF v >= 4800 THEN "manufacturing contraction starting"
    ELSE IF v >= 4500 THEN "manufacturing contraction"
    ELSE "manufacturing severe contraction"

_interpret_ism_services(v) ==
    IF v >= 6000 THEN "services strong expansion"
    ELSE IF v >= 5500 THEN "services expansion"
    ELSE IF v >= 5000 THEN "services mild expansion"
    ELSE IF v >= 4800 THEN "services contraction starting"
    ELSE IF v >= 4500 THEN "services contraction"
    ELSE "services severe contraction"

_interpret_ppi(v, change) ==
    LET annual_estimate == PercentOf(change) * 12
    IN  IF annual_estimate > 400 THEN "producer prices surging"
        ELSE IF annual_estimate > 300 THEN "producer price pressure"
        ELSE IF annual_estimate > 200 THEN "producer prices rising moderately"
        ELSE "producer prices stable"

_interpret_import_prices(change) ==
    LET pct == PercentOf(change)
    IN  IF pct > 200 THEN "import prices surging - inflation pressure"
        ELSE IF pct > 100 THEN "import prices rising"
        ELSE IF pct > -100 THEN "import prices stable"
        ELSE "import prices falling - deflation pressure"

_interpret_export_prices(change) ==
    LET pct == PercentOf(change)
    IN  IF pct > 200 THEN "export prices strong - competitiveness concern"
        ELSE IF pct > 0 THEN "export prices rising"
        ELSE IF pct > -200 THEN "export prices stable"
        ELSE "export prices weak - competitiveness improving"

\* The dict of all fifteen texts is built before the lookup, so every helper
\* runs on every call: a value that is not a number fails in the first
\* comparison (TypeError) whatever the indicator id is.
_interpret_indicator(id, value, change) ==
    IF value.kind # "num"
    THEN [raised |-> "TypeError", text |-> ""]
    ELSE LET v == value.n
         IN  [raised |-> NoRaise,
              text |->
                CASE id = "UNRATE"       -> _interpret_unemployment(v)
                  [] id = "CPIAUCSL"     -> _interpret_inflation(v, change)
                  [] id = "PPIACO"       -> _interpret_ppi(v, change)
                  [] id = "DFF"          -> _interpret_fed_rate(v)
                  [] id = "GDPC1"        -> _interpret_gdp(v, change)
                  [] id = "T10Y2Y"       -> _interpret_yield_curve(v)
                  [] id = "SAHMREALTIME" -> _interpret_sahm_rule(v)
                  [] id = "ICSA"         -> _interpret_jobless_claims(v)
                  [] id = "RSXFS"        -> _interpret_retail_sales(change)
                  [] id = "HOUST"        -> _interpret_housing_starts(v)
                  [] id = "UMCSENT"      -> _interpret_consumer_sentiment(v)
                  [] id = "MANEMP"       -> _interpret_ism_manufacturing(v)
                  [] id = "NMFBAI"       -> _interpret_ism_services(v)
                  [] id = "IR"           -> _interpret_import_prices(change)
                  [] id = "IQ"           -> _interpret_export_prices(change)
                  [] OTHER               -> "analysing data"]

(***************************************************************************)
(* EconomicAnalyzer._analyze_single_indicator                              *)
(* An entry of the snapshot is [id, hasName, value, change].               *)
(***************************************************************************)
\* if change: ...  (trend arrow from the percent change)
TrendOf(change) ==
    IF change.kind # "dict" THEN ""
    ELSE IF Abs(change.n) < 50 THEN "flat"
    ELSE IF change.n > 0 THEN "up"
    ELSE "down"

\* the status chain without the inverse_indicators branch
StatusAllHigherIsWorse(id, v) ==
    IF id \notin ThresholdIds THEN "normal"
    ELSE IF v >= thresholds(id).critical THEN "critical"
    ELSE IF v >= thresholds(id).warning THEN "warning"
    ELSE "normal"

\* the status chain with the lower-is-worse comparison turned around
StatusLowerStrict(id, v) ==
    IF id \notin ThresholdIds THEN "normal"
    ELSE IF id \in LowerIsWorseIds
         THEN IF v < thresholds(id).critical THEN "critical"
              ELSE IF v < thresholds(id).warning THEN "warning"
              ELSE "normal"
         ELSE IF v > thresholds(id).critical THEN "critical"
              ELSE IF v > thresholds(id).warning THEN "warning"
              ELSE "normal"

\* lines 141-154: the tier of a numeric value
StatusOf(id, v) ==
    IF id \notin ThresholdIds THEN "normal"
    ELSE IF id \in LowerIsWorseIds
         THEN IF v <= thresholds(id).critical THEN "critical"
              ELSE IF v <= thresholds(id).warning THEN "warning"
              ELSE "normal"
         ELSE IF v >= thresholds(id).critical THEN "critical"
              ELSE IF v >= thresholds(id).warning THEN "warning"
              ELSE "normal"

_analyze_single_indicator(id, data) ==
    LET value  == IF data.value.kind = "missing" THEN Num(0) ELSE data.value
        change == data.change
        interp == _interpret_indicator(id, value, change)
    IN  IF value.kind # "num"
        THEN \* the threshold comparison or, without thresholds, the first
             \* interpretation helper compares a non-number with a float
             [raised |-> "TypeError", current |-> value, change |-> change,
              status |-> "normal", trend |-> "", interpretation |-> ""]
        ELSE [raised |-> interp.raised, current |-> value, change |-> change,
              status |-> StatusOf(id, value.n), trend |-> TrendOf(change),
              interpretation |-> interp.text]

(***************************************************************************)
(* Snapshots: the dict series id -> entry, as the sequence of its entries  *)
(* in insertion order (ids are distinct).                                  *)
(***************************************************************************)
Entry(id, hasName, name, value, change) ==
    [id |-> id, hasName |-> hasName, name |-> name, value |-> value, change |-> change]

\* raw_data.get(id, {}): the entry, or the empty dict
Lookup(raw_data, id) ==
    IF \E i \in 1..Len(raw_data) : raw_data[i].id = id
    THEN raw_data[CHOOSE i \in 1..Len(raw_data) : raw_data[i].id = id]
    ELSE Entry(id, FALSE, <<>>, Missing, Missing)

\* d.get('value', default)
ValueOr(entry, default) ==
    IF entry.value.kind = "missing" THEN Num(default) ELSE entry.value

(***************************************************************************)
(* _estimate_gdp_growth / _estimate_inflation (analyzer.py 506-522)        *)
(***************************************************************************)
\* the estimate without the guard for an empty dict or a missing 'change'
EstimateFromUnguarded(entry, factor) ==
    IF entry.change.kind = "missing" THEN [raised |-> "KeyError", n |-> 0]
    ELSE IF entry.change.kind = "None" THEN [raised |-> "AttributeError", n |-> 0]
    ELSE [raised |-> NoRaise, n |-> entry.change.n * factor]

\* `not d or 'change' not in d` returns 0; d['change'].get(...) on None raises
EstimateFrom(entry, factor) ==
    IF entry.change.kind = "missing" THEN [raised |-> NoRaise, n |-> 0]
    ELSE IF entry.change.kind = "None" THEN [raised |-> "AttributeError", n |-> 0]
    ELSE [raised |-> NoRaise, n |-> entry.change.n * factor]

_estimate_gdp_growth(gdp_data) == EstimateFrom(gdp_data, 4)

_estimate_inflation(cpi_data) == EstimateFrom(cpi_data, 12)

\* raw_data.get('RSXFS', {}).get('change', {}).get('percent', 0)
RetailSalesOf(raw_data) ==
    LET c == Lookup(raw_data, "RSXFS").change
    IN  IF c.kind = "None" THEN [raised |-> "AttributeError", n |-> 0]
        ELSE [raised |-> NoRaise, n |-> PercentOf(c)]

(***************************************************************************)
(* _determine_market_phase (analyzer.py 171-198)                           *)
(***************************************************************************)
Recession == <<"(red)", " ", "gyeong", "gi", "chim", "che", " ", "(Recession)">>

Slowdown == <<"(orange)", " ", "gyeong", "gi", "dun", "hwa", " ", "(Slowdown)">>

Overheating == <<"(yellow)", " ", "gwa", "yeol", " ", "(Overheating)">>

Expansion == <<"(green)", " ", "hwak", "jang", " ", "(Expansion)">>

ModerateGrowth ==
    <<"(blue)", " ", "wan", "man", "han", " ", "seong", "jang", " ", "(Moderate Growth)">>

Transition == <<"(white)", " ", "jeon", "hwan", "gi", " ", "(Transition)">>

Phases == {Recession, Slowdown, Overheating, Expansion, ModerateGrowth, Transition}

Returned(v) == [raised |-> NoRaise, value |-> v]

Raised(e) == [raised |-> e, value |-> <<>>]

\* the if/elif chain of lines 187-198; a comparison whose operand is not a
\* number raises TypeError when Python reaches it (`and` short-circuits)
PhaseChain(gdp_growth, unemployment, sahm_value, yield_spread) ==
    IF sahm_value.kind # "num" THEN Raised("TypeError")
    ELSE IF sahm_value.n >= 50 THEN Returned(Recession)
    ELSE IF yield_spread.kind # "num" THEN Raised("TypeError")
    ELSE IF yield_spread.n < 0 /\ unemployment.kind # "num" THEN Raised("TypeError")
    ELSE IF yield_spread.n < 0 /\ unemployment.n > 400 THEN Returned(Slowdown)
    ELSE IF gdp_growth > 300 /\ unemployment.kind # "num" THEN Raised("TypeError")
    ELSE IF gdp_growth > 300 /\ unemployment.n < 350 THEN Returned(Overheating)
    ELSE IF gdp_growth > 200 /\ unemployment.kind # "num" THEN Raised("TypeError")
    ELSE IF gdp_growth > 200 /\ unemployment.n < 400 THEN Returned(Expansion)
    ELSE IF gdp_growth > 0 /\ gdp_growth <= 200 THEN Returned(ModerateGrowth)
    ELSE Returned(Transition)

_determine_market_phase(raw_data) ==
    LET gdp_growth   == _estimate_gdp_growth(Lookup(raw_data, "GDPC1"))
        unemployment == ValueOr(Lookup(raw_data, "UNRATE"), 0)
        inflation    == _estimate_inflation(Lookup(raw_data, "CPIAUCSL"))
        retail_sales == RetailSalesOf(raw_data)
        sahm_value   == ValueOr(Lookup(raw_data, "SAHMREALTIME"), 0)
        yield_spread == ValueOr(Lookup(raw_data, "T10Y2Y"), 0)
    IN  IF gdp_growth.raised # NoRaise THEN Raised(gdp_growth.raised)
        ELSE IF inflation.raised # NoRaise THEN Raised(inflation.raised)
        ELSE IF retail_sales.raised # NoRaise THEN Raised(retail_sales.raised)
        ELSE PhaseChain(gdp_growth.n, unemployment, sahm_value, yield_spread)

(***************************************************************************)
(* _calculate_risk_level (analyzer.py 200-250)                             *)
(***************************************************************************)
VeryHigh == <<"(red)", " ", "mae", "u", " ", "nop", "eum", " ", "(Very High)">>

High == <<"(orange)", " ", "nop", "eum", " ", "(High)">>

Medium == <<"(yellow)", " ", "jung", "gan", " ", "(Medium)">>

Low == <<"(green)", " ", "nat", "eum", " ", "(Low)">>

VeryLow == <<"(blue)", " ", "mae", "u", " ", "nat", "eum", " ", "(Very Low)">>

RiskLevels == {VeryHigh, High, Medium, Low, VeryLow}

max_score == 10

\* the spread's points with the breakpoints counted in
SpreadPointsInclusive(v) == IF v <= -50 THEN 3 ELSE IF v <= 0 THEN 2 ELSE IF v <= 50 THEN 1 ELSE 0

SpreadPoints(v) == IF v < -50 THEN 3 ELSE IF v < 0 THEN 2 ELSE IF v < 50 THEN 1 ELSE 0

SahmPoints(v) == IF v >= 50 THEN 3 ELSE IF v >= 30 THEN 2 ELSE IF v >= 20 THEN 1 ELSE 0

UnemploymentPoints(v) == IF v > 500 THEN 2 ELSE IF v > 400 THEN 1 ELSE 0

InflationPoints(v) ==
    IF v > 400 \/ v < 100 THEN 2 ELSE IF v > 300 \/ v < 150 THEN 1 ELSE 0

\* the tier chain with strict comparisons
RiskTierStrict(risk_score) ==
    IF risk_score * 100 > 70 * max_score THEN VeryHigh
    ELSE IF risk_score * 100 > 50 * max_score THEN High
    ELSE IF risk_score * 100 > 30 * max_score THEN Medium
    ELSE IF risk_score * 100 > 15 * max_score THEN Low
    ELSE VeryLow

\* risk_pct = risk_score / max_score * 100, compared with 70, 50, 30, 15
RiskTier(risk_score) ==
    IF risk_score * 100 >= 70 * max_score THEN VeryHigh
    ELSE IF risk_score * 100 >= 50 * max_score THEN High
    ELSE IF risk_score * 100 >= 30 * max_score THEN Medium
    ELSE IF risk_score * 100 >= 15 * max_score THEN Low
    ELSE VeryLow

\* returns [raised, score, value]: the score is kept beside the tier string
_calculate_risk_level(raw_data) ==
    LET yield_spread == ValueOr(Lookup(raw_data, "T10Y2Y"), 100)
        sahm         == ValueOr(Lookup(raw_data, "SAHMREALTIME"), 0)
        unemployment == ValueOr(Lookup(raw_data, "UNRATE"), 0)
        inflation    == _estimate_inflation(Lookup(raw_data, "CPIAUCSL"))
        risk_score   == SpreadPoints(yield_spread.n) + SahmPoints(sahm.n)
                          + UnemploymentPoints(unemployment.n) + InflationPoints(inflation.n)
    IN  IF yield_spread.kind # "num" \/ sahm.kind # "num" \/ unemployment.kind # "num"
        THEN [raised |-> "TypeError", score |-> 0, value |-> <<>>]
        ELSE IF inflation.raised # NoRaise
        THEN [raised |-> inflation.raised, score |-> 0, value |-> <<>>]
        ELSE [raised |-> NoRaise, score |-> risk_score, value |-> RiskTier(risk_score)]

(***************************************************************************)
(* _generate_recommendations (analyzer.py 252-302)                         *)
(* An alert is [indicator, status, value, message].                        *)
(***************************************************************************)
MarkerChimche == <<"chim", "che">>

MarkerDunhwa == <<"dun", "hwa">>

MarkerGwayeol == <<"gwa", "yeol">>

MarkerHwakjang == <<"hwak", "jang">>

MarkerVeryHigh == <<"mae", "u", " ", "nop", "eum">>

MarkerHigh == <<"nop", "eum">>

MarkerSahm == <<"S", "a", "h", "m">>

MarkerYield == <<"su", "ik", "ryul">>

MarkerISM == <<"I", "S", "M">>

RecessionBlock ==
    <<"raise cash weight", "watch defensive stocks", "consider more long-term treasuries">>

SlowdownBlock ==
    <<"time to rebalance", "review more dividend stocks", "consider fewer growth stocks">>

OverheatingBlock ==
    <<"review profit taking", "strengthen risk management", "secure short-term liquidity">>

ExpansionBlock ==
    <<"keep or raise equity weight", "watch cyclical stocks", "growth stock opportunity">>

RiskBlock == <<"no leveraged investment", "build hedge positions">>

SahmAdvice == "adjust positions for recession"

YieldAdvice == "yield inversion - defensive position"

ISMAdvice == "manufacturing/services contraction - avoid cyclicals"

ISMCatchAll == "ISM below 50 - prepare for slowdown"

PhaseBlock(market_phase) ==
    IF Contains(MarkerChimche, market_phase) THEN RecessionBlock
    ELSE IF Contains(MarkerDunhwa, market_phase) THEN SlowdownBlock
    ELSE IF Contains(MarkerGwayeol, market_phase) THEN OverheatingBlock
    ELSE IF Contains(MarkerHwakjang, market_phase) THEN ExpansionBlock
    ELSE <<>>

RiskBlockOf(risk_level) ==
    IF Contains(MarkerVeryHigh, risk_level) \/ Contains(MarkerHigh, risk_level)
    THEN RiskBlock
    ELSE <<>>

\* the body of the loop over alerts[:2], for one alert
AlertAdvice(alert) ==
    IF alert.status = "critical"
    THEN IF Contains(MarkerSahm, alert.indicator) THEN <<SahmAdvice>>
         ELSE IF Contains(MarkerYield, alert.indicator) THEN <<YieldAdvice>>
         ELSE IF Contains(MarkerISM, alert.indicator) THEN <<ISMAdvice>>
         ELSE <<>>
    ELSE <<>>

\* the loop over alerts[:3]
AlertBlockOfThree(alerts) ==
    LET top == Take(alerts, 3)
    IN  (IF Len(top) >= 1 THEN AlertAdvice(top[1]) ELSE <<>>)
        \o (IF Len(top) >= 2 THEN AlertAdvice(top[2]) ELSE <<>>)
        \o (IF Len(top) >= 3 THEN AlertAdvice(top[3]) ELSE <<>>)

\* for alert in alerts[:2]: ...
AlertBlock(alerts) ==
    LET top == Take(alerts, 2)
    IN  (IF Len(top) >= 1 THEN AlertAdvice(top[1]) ELSE <<>>)
        \o (IF Len(top) >= 2 THEN AlertAdvice(top[2]) ELSE <<>>)

\* if any('ISM' in ind for ind in [a['indicator'] for a in alerts]): ...
ISMBlock(alerts) ==
    IF \E i \in 1..Len(alerts) : Contains(MarkerISM, alerts[i].indicator)
    THEN <<ISMCatchAll>>
    ELSE <<>>

\* the cut one entry late
TruncateAtSix(recommendations) == Take(recommendations, 6)

\* the list returned whole
TruncateNone(recommendations) == recommendations

\* return recommendations[:5]
Truncate(recommendations) == Take(recommendations, 5)

_generate_recommendations(market_phase, risk_level, alerts) ==
    Truncate(PhaseBlock(market_phase) \o RiskBlockOf(risk_level)
             \o AlertBlock(alerts) \o ISMBlock(alerts))

(***************************************************************************)
(* _create_summary (analyzer.py 524-551)                                   *)
(***************************************************************************)
LowerIsBetterIds == {"UNRATE", "CPIAUCSL", "ICSA"}

\* the else-branch alone: every indicator read as higher-is-better
SummarySideHigherIsBetter(entry) ==
    IF entry.change.kind # "dict" THEN "neither"
    ELSE IF entry.change.n > 100 THEN "improving"
    ELSE IF entry.change.n < -100 THEN "deteriorating"
    ELSE "neither"

\* which list, if any, the entry's name is appended to
SummarySide(entry) ==
    IF entry.change.kind # "dict" THEN "neither"
    ELSE LET pct_change == entry.change.n
         IN  IF entry.id \in LowerIsBetterIds
             THEN IF pct_change < -100 THEN "improving"
                  ELSE IF pct_change > 100 THEN "deteriorating"
                  ELSE "neither"
             ELSE IF pct_change > 100 THEN "improving"
                  ELSE IF pct_change < -100 THEN "deteriorating"
                  ELSE "neither"

RECURSIVE NamesOn(_, _, _)
\* the names appended to the list `side` by entries i..Len(data)
NamesOn(data, side, i) ==
    IF i > Len(data) THEN <<>>
    ELSE (IF SummarySide(data[i]) = side THEN <<data[i].name>> ELSE <<>>)
         \o NamesOn(data, side, i + 1)

_create_summary(data) ==
    IF \E i \in 1..Len(data) : SummarySide(data[i]) # "neither" /\ ~data[i].hasName
    THEN [raised |-> "KeyError", value |-> <<>>]
    ELSE [raised |-> NoRaise,
          value |-> [total_indicators        |-> Len(data),
                     updated_indicators      |-> Cardinality({i \in 1..Len(data) :
                                                     data[i].value.kind # "missing"}),
                     critical_indicators     |-> <<>>,
                     improving_indicators    |-> NamesOn(data, "improving", 1),
                     deteriorating_indicators |-> NamesOn(data, "deteriorating", 1)]]

(***************************************************************************)
(* analyze_indicators (analyzer.py 80-124)                                 *)
(***************************************************************************)
Alert(entry, result) ==
    [indicator |-> entry.name, status |-> result.status,
     value |-> entry.value, message |-> result.interpretation]

\* what one pass of the loop body does with entry i:
\* "skip" (no 'value' key), "raise", or the assessment
LoopStep(data, i) ==
    IF data[i].value.kind = "missing" THEN [kind |-> "skip", raised |-> NoRaise]
    ELSE LET result == _analyze_single_indicator(data[i].id, data[i])
         IN  IF result.raised # NoRaise
             THEN [kind |-> "raise", raised |-> result.raised]
             ELSE IF result.status \in {"warning", "critical"} /\ ~data[i].hasName
             THEN [kind |-> "raise", raised |-> "KeyError"]
             ELSE [kind |-> "ok", raised |-> NoRaise]

\* the exception that ends the loop, or NoRaise
LoopRaised(data) ==
    IF \E i \in 1..Len(data) : LoopStep(data, i).kind = "raise"
    THEN LoopStep(data, CHOOSE i \in 1..Len(data) :
                          /\ LoopStep(data, i).kind = "raise"
                          /\ \A j \in 1..(i - 1) : LoopStep(data, j).kind # "raise").raised
    ELSE NoRaise

RECURSIVE AssessmentsFrom(_, _)
\* analysis['indicators'] built by entries i..Len(data), in insertion order
AssessmentsFrom(data, i) ==
    IF i > Len(data) THEN <<>>
    ELSE (IF data[i].value.kind = "missing" THEN <<>>
          ELSE <<[id |-> data[i].id,
                  result |-> _analyze_single_indicator(data[i].id, data[i])]>>)
         \o AssessmentsFrom(data, i + 1)

RECURSIVE AlertsNewestFirst(_, _)
\* the alerts of entries i..Len(data), each put in front of the earlier ones
AlertsNewestFirst(data, i) ==
    IF i > Len(data) THEN <<>>
    ELSE AlertsNewestFirst(data, i + 1)
         \o (IF data[i].value.kind = "missing" THEN <<>>
             ELSE LET result == _analyze_single_indicator(data[i].id, data[i])
                  IN  IF result.status \in {"warning", "critical"}
                      THEN <<Alert(data[i], result)>>
                      ELSE <<>>)

RECURSIVE AlertsFrom(_, _)
\* analysis['alerts'] appended by entries i..Len(data)
AlertsFrom(data, i) ==
    IF i > Len(data) THEN <<>>
    ELSE (IF data[i].value.kind = "missing" THEN <<>>
          ELSE LET result == _analyze_single_indicator(data[i].id, data[i])
               IN  IF result.status \in {"warning", "critical"}
                   THEN <<Alert(data[i], result)>>
                   ELSE <<>>)
         \o AlertsFrom(data, i + 1)

NoAnalysis(e) ==
    [raised |-> e, indicators |-> <<>>, alerts |-> <<>>, market_phase |-> <<>>,
     risk_level |-> <<>>, risk_score |-> 0, recommendations |-> <<>>, summary |-> <<>>]

analyze_indicators(data) ==
    LET raisedInLoop == LoopRaised(data)
        alerts  == AlertsFrom(data, 1)
        phase   == _determine_market_phase(data)
        risk    == _calculate_risk_level(data)
        summary == _create_summary(data)
    IN  IF raisedInLoop # NoRaise THEN NoAnalysis(raisedInLoop)
        ELSE IF phase.raised # NoRaise THEN NoAnalysis(phase.raised)
        ELSE IF risk.raised # NoRaise THEN NoAnalysis(risk.raised)
        ELSE IF summary.raised # NoRaise THEN NoAnalysis(summary.raised)
        ELSE [raised          |-> NoRaise,
              indicators      |-> AssessmentsFrom(data, 1),
              alerts          |-> alerts,
              market_phase    |-> phase.value,
              risk_level      |-> risk.value,
              risk_score      |-> risk.score,
              recommendations |-> _generate_recommendations(phase.value, risk.value, alerts),
              summary         |-> summary.value]

(***************************************************************************)
(* FREDCollector.get_latest_values (fred_collector.py 128-166)             *)
(* What get_series_data returns for a series is a sequence of observation  *)
(* values, newest first, already numeric (non-numeric rows are dropped);   *)
(* the empty sequence is the empty DataFrame.                              *)
(***************************************************************************)
\* round(n / d, 0) for d > 0, ties to even
RoundDiv(n, d) ==
    LET q   == (2 * Abs(n) + d) \div (2 * d)
        tie == (2 * Abs(n) + d) % (2 * d) = 0
        r   == IF tie /\ q % 2 = 1 THEN q - 1 ELSE q
    IN  IF n < 0 THEN -r ELSE r

\* lines 154-163: 'change' stays None without a previous row or with a
\* previous value of 0; else percent = round(change / abs(prev) * 100, 2)
ChangeOf(obs) ==
    IF Len(obs) > 1 /\ obs[2] # 0
    THEN Change(RoundDiv(10000 * (obs[1] - obs[2]), Abs(obs[2])))
    ELSE None

\* lines 146-152: the dict stored for a series with observations
LatestEntry(id, obs) == Entry(id, TRUE, indicators(id), Num(obs[1]), ChangeOf(obs))

\* one pass of the loop: `continue` on an empty frame, else store the entry
Collect(latest, id, obs) ==
    IF Len(obs) = 0 THEN latest ELSE Append(latest, LatestEntry(id, obs))

RECURSIVE CollectFrom(_, _, _)
\* the loop from series i on, over a feed: series id -> observations
CollectFrom(latest, feed, i) ==
    IF i > Len(SeriesIds) THEN latest
    ELSE CollectFrom(Collect(latest, SeriesIds[i], feed[SeriesIds[i]]), feed, i + 1)

get_latest_values(feed) == CollectFrom(<<>>, feed, 1)

(***************************************************************************)
(* What FRED may answer (the environment)                                  *)
(***************************************************************************)
\* a latest value v whose percent change from 100.00 is k hundredths
Moved(k) == <<10000 + k, 10000>>

\* the answers explored when the collector runs step by step
Feed(id) ==
    CASE id = "DGS10"        -> {<<>>, <<400>>}
      [] id = "T10Y2Y"       -> {<<>>, <<-60>>, <<30, 0>>}
      [] id = "UNRATE"       -> {<<>>, <<380>>, <<550, 500>>}
      [] id = "CPIAUCSL"     -> {<<>>, <<32000>>, Moved(20)}
      [] id = "GDPC1"        -> {<<>>, <<2300000>>, Moved(60)}
      [] id = "RSXFS"        -> {<<>>, <<70000>>, Moved(150)}
      [] id = "MANEMP"       -> {<<>>, <<4400>>, <<4600>>}
      [] id = "NMFBAI"       -> {<<>>, <<4600>>}
      [] id = "SAHMREALTIME" -> {<<>>, <<10>>, <<50>>}
      [] OTHER               -> {<<>>}

\* the answers explored for the series the composite rules read
JudgeFeed(id) ==
    CASE id = "T10Y2Y"       -> {<<>>, <<-60>>, <<-50>>, <<-20>>, <<0>>, <<30>>, <<50>>}
      [] id = "UNRATE"       -> {<<>>, <<340>>, <<380>>, <<400>>, <<420>>, <<500>>, <<550>>}
      [] id = "SAHMREALTIME" -> {<<>>, <<10>>, <<20>>, <<30>>, <<50>>}
      [] id = "GDPC1"        -> {<<>>, <<10000>>} \cup
                                {Moved(k) : k \in {-50, 0, 30, 50, 60, 75, 100}}
      [] id = "CPIAUCSL"     -> {<<>>, <<10000>>} \cup
                                {Moved(k) : k \in {5, 10, 20, 25, 30, 40}}
      [] id = "RSXFS"        -> {<<>>, <<10000>>, Moved(150)}
      [] OTHER               -> {<<>>}

NoFeed == [id \in {SeriesIds[i] : i \in 1..Len(SeriesIds)} |-> <<>>]

\* every combination of the answers of JudgeFeed, the other series empty
JudgeFeeds ==
    {[NoFeed EXCEPT !["T10Y2Y"] = t, !["UNRATE"] = u, !["SAHMREALTIME"] = s,
                    !["GDPC1"] = g, !["CPIAUCSL"] = c, !["RSXFS"] = r] :
        t \in JudgeFeed("T10Y2Y"), u \in JudgeFeed("UNRATE"),
        s \in JudgeFeed("SAHMREALTIME"), g \in JudgeFeed("GDPC1"),
        c \in JudgeFeed("CPIAUCSL"), r \in JudgeFeed("RSXFS")}

(***************************************************************************)
(* State                                                                   *)
(*   pc       where the run is: "collecting", "ready" (inputs fixed, no    *)
(*            call made yet), "done" (the call returned or raised)         *)
(*   snap     the snapshot dict: the collector's `latest` while it is      *)
(*            being filled, then the argument of the analyzer              *)
(*   idx      the collector's position in SeriesIds                        *)
(*   arg      the other arguments of the call under study                  *)
(*   call     which function was called                                    *)
(*   out      what it returned, with `raised` naming an exception          *)
(*   day, hits, cycles, built, attempts, resp: the web service (below)     *)
(***************************************************************************)
NoArg == [id |-> "", data |-> Entry("", FALSE, <<>>, Missing, Missing),
          market_phase |-> <<>>, risk_level |-> <<>>, alerts |-> <<>>]

NoOut == [raised |-> NoRaise]

\* no request served yet
NoResponse ==
    [path |-> "", secret |-> "", status |-> "", code |-> 0, started |-> FALSE,
     weekday |-> 0, delivery |-> "", built |-> 0, sent |-> 0,
     sendRaised |-> NoRaise, success |-> FALSE]

ServiceIdle ==
    /\ day = 0
    /\ hits = 0
    /\ cycles = 0
    /\ built = 0
    /\ attempts = 0
    /\ resp = NoResponse

ServiceUnchanged == UNCHANGED <<day, hits, cycles, built, attempts, resp>>

(***************************************************************************)
(* The collector, one series per step, then one analyzer call              *)
(***************************************************************************)
Init ==
    /\ pc = "collecting"
    /\ snap = <<>>
    /\ idx = 1
    /\ arg = NoArg
    /\ call = ""
    /\ out = NoOut
    /\ ServiceIdle

\* one pass of the loop of get_latest_values
GetLatestStep ==
    /\ pc = "collecting"
    /\ idx <= Len(SeriesIds)
    /\ \E obs \in Feed(SeriesIds[idx]) : snap' = Collect(snap, SeriesIds[idx], obs)
    /\ idx' = idx + 1
    /\ pc' = IF idx = Len(SeriesIds) THEN "ready" ELSE "collecting"
    /\ UNCHANGED <<arg, call, out>>
    /\ ServiceUnchanged

CallDeterminePhase ==
    /\ pc = "ready"
    /\ call' = "_determine_market_phase"
    /\ out' = _determine_market_phase(snap)
    /\ pc' = "done"
    /\ UNCHANGED <<snap, idx, arg>>
    /\ ServiceUnchanged

CallCalculateRisk ==
    /\ pc = "ready"
    /\ call' = "_calculate_risk_level"
    /\ out' = _calculate_risk_level(snap)
    /\ pc' = "done"
    /\ UNCHANGED <<snap, idx, arg>>
    /\ ServiceUnchanged

CallAnalyze ==
    /\ pc = "ready"
    /\ call' = "analyze_indicators"
    /\ out' = analyze_indicators(snap)
    /\ pc' = "done"
    /\ UNCHANGED <<snap, idx, arg>>
    /\ ServiceUnchanged

Next == GetLatestStep \/ CallDeterminePhase \/ CallCalculateRisk \/ CallAnalyze

Spec == Init /\ [][Next]_vars

(***************************************************************************)
(* The composite judge on every snapshot of JudgeFeeds                     *)
(***************************************************************************)
InitJudge ==
    /\ pc = "ready"
    /\ snap \in {get_latest_values(feed) : feed \in JudgeFeeds}
    /\ idx = Len(SeriesIds) + 1
    /\ arg = NoArg
    /\ call = ""
    /\ out = NoOut
    /\ ServiceIdle

NextJudge == CallDeterminePhase \/ CallCalculateRisk

SpecJudge == InitJudge /\ [][NextJudge]_vars

(***************************************************************************)
(* _analyze_single_indicator on one indicator at a time                    *)
(***************************************************************************)
ClassifyIds == ThresholdIds \cup {"GDPC1", "RSXFS", "XYZ"}

NameOf(id) ==
    IF \E i \in 1..Len(SeriesIds) : SeriesIds[i] = id THEN indicators(id) ELSE <<"X", "Y", "Z">>

\* values at and beside each breakpoint of the indicator's thresholds
ProbeValues(id) ==
    IF id \in ThresholdIds
    THEN {thresholds(id).critical + d : d \in {-1, 0, 1}}
         \cup {thresholds(id).warning + d : d \in {-1, 0, 1}}
         \cup {thresholds(id).normal + d : d \in {-1, 0, 1}}
    ELSE {-100, 0, 450, 500, 30000000}

ProbeChanges == {Missing, None, Change(-60), Change(49), Change(50)}

InitClassify ==
    /\ pc = "ready"
    /\ snap = <<>>
    /\ idx = 0
    /\ \E id \in ClassifyIds : \E v \in ProbeValues(id) : \E c \in ProbeChanges :
           arg = [NoArg EXCEPT !.id = id, !.data = Entry(id, TRUE, NameOf(id), Num(v), c)]
    /\ call = ""
    /\ out = NoOut
    /\ ServiceIdle

Classify ==
    /\ pc = "ready"
    /\ call' = "_analyze_single_indicator"
    /\ out' = _analyze_single_indicator(arg.id, arg.data)
    /\ pc' = "done"
    /\ UNCHANGED <<snap, idx, arg>>
    /\ ServiceUnchanged

SpecClassify == InitClassify /\ [][Classify]_vars

(***************************************************************************)
(* _generate_recommendations on every phase, risk tier and alert list      *)
(***************************************************************************)
MaxAlerts == 3

\* alerts as analyze_indicators builds them from catalog entries
AlertOf(id, v) ==
    LET entry == Entry(id, TRUE, NameOf(id), Num(v), None)
    IN  Alert(entry, _analyze_single_indicator(id, entry))

\* the last two are alerts only a caller can build: DGS10 has no thresholds,
\* and the ISM indicators never reach the warning tier
AlertMenu ==
    { AlertOf("SAHMREALTIME", 50), AlertOf("SAHMREALTIME", 30), AlertOf("T10Y2Y", -60),
      AlertOf("MANEMP", 4600), AlertOf("NMFBAI", 4600), AlertOf("UNRATE", 550),
      [indicator |-> indicators("DGS10"), status |-> "critical",
       value |-> Num(400), message |-> "analysing data"],
      [indicator |-> indicators("MANEMP"), status |-> "warning",
       value |-> Num(4700), message |-> "manufacturing contraction"] }

\* lists of at most MaxAlerts alerts, each about another indicator
AlertLists ==
    {a \in UNION {[1..k -> AlertMenu] : k \in 0..MaxAlerts} :
        \A i, j \in 1..Len(a) : i # j => a[i].indicator # a[j].indicator}

InitRecommend ==
    /\ pc = "ready"
    /\ snap = <<>>
    /\ idx = 0
    /\ \E p \in Phases : \E r \in RiskLevels : \E a \in AlertLists :
           arg = [NoArg EXCEPT !.market_phase = p, !.risk_level = r, !.alerts = a]
    /\ call = ""
    /\ out = NoOut
    /\ ServiceIdle

Recommend ==
    /\ pc = "ready"
    /\ call' = "_generate_recommendations"
    /\ out' = Returned(_generate_recommendations(arg.market_phase, arg.risk_level, arg.alerts))
    /\ pc' = "done"
    /\ UNCHANGED <<snap, idx, arg>>
    /\ ServiceUnchanged

SpecRecommend == InitRecommend /\ [][Recommend]_vars

(***************************************************************************)
(* analyze_indicators on dicts a caller hands in, malformed entries        *)
(* included                                                                *)
(***************************************************************************)
MaxEntries == 2

Named(id, v, change) == Entry(id, TRUE, NameOf(id), v, change)

Unnamed(id, v, change) == Entry(id, FALSE, <<>>, v, change)

WellFormedMenu ==
    { Named("T10Y2Y", Num(-60), Change(-300)), Named("T10Y2Y", Num(30), Change(300)),
      Named("UNRATE", Num(550), Change(200)), Named("UNRATE", Num(300), Change(-200)),
      Named("UNRATE", Num(300), Change(10)),
      Named("DFF", Num(450), Change(200)),
      Named("SAHMREALTIME", Num(50), None), Named("SAHMREALTIME", Num(10), Change(-200)),
      Named("MANEMP", Num(4600), None), Named("NMFBAI", Num(4600), None),
      Named("GDPC1", Num(2300000), Change(60)),
      Named("CPIAUCSL", Num(32000), Change(20)),
      Named("ICSA", Num(22000000), Change(-100)), Named("DGS10", Num(400), Change(101)),
      Named("XYZ", Num(100), Missing) }

MalformedMenu ==
    { Named("UNRATE", Missing, Missing), Named("UNRATE", None, Missing),
      Named("PAYEMS", Str, Missing), Named("PAYEMS", None, None),
      Unnamed("UNRATE", Num(550), Missing), Unnamed("PAYEMS", Num(100), Missing),
      Unnamed("T10Y2Y", Num(30), Change(300)) }

Malformed(entry) == entry.value.kind # "num" \/ ~entry.hasName

\* dicts of at most MaxEntries entries: the ids are distinct
CallerSnapshots ==
    {d \in UNION {[1..k -> WellFormedMenu \cup MalformedMenu] : k \in 0..MaxEntries} :
        \A i, j \in 1..Len(d) : i # j => d[i].id # d[j].id}

InitCaller ==
    /\ pc = "ready"
    /\ snap \in CallerSnapshots
    /\ idx = 0
    /\ arg = NoArg
    /\ call = ""
    /\ out = NoOut
    /\ ServiceIdle

SpecCaller == InitCaller /\ [][CallAnalyze]_vars

(***************************************************************************)
(* The web service (main.py 280-403)                                       *)
(*   day       weekday of datetime.now(KST): 0 Monday .. 6 Sunday          *)
(*   hits      requests served                                             *)
(*   cycles    calls of send_daily_briefing                                *)
(*   built     calls of format_economic_briefing                           *)
(*   attempts  calls of send_telegram_message                              *)
(*   resp      the last request and its answer: path, the secret the       *)
(*             request carried, status, HTTP code, whether it started a    *)
(*             cycle; and of that cycle: the weekday it ran on, how the    *)
(*             POST to Telegram would end, how many reports it built and   *)
(*             sends it made, what send_telegram_message raised to its     *)
(*             caller, and the value send_daily_briefing returned          *)
(***************************************************************************)
MaxRequests == 3

Secrets == {"correct", "wrong", "absent"}

\* how the POST to Telegram ends: ok, a transport exception, an HTTP error
\* status (raise_for_status), or a JSON answer whose 'ok' is false
Deliveries == {"ok", "transport_exception", "http_error", "api_not_ok"}

\* lines 283-300, the try body: requests.post raises on a transport failure,
\* raise_for_status on an HTTP error status, else the answer's 'ok' decides
TelegramPost(delivery) ==
    CASE delivery = "transport_exception" -> Raised("ConnectionError")
      [] delivery = "http_error"          -> Raised("HTTPError")
      [] delivery = "api_not_ok"          -> Returned(FALSE)
      [] OTHER                            -> Returned(TRUE)

\* the try body without its except clause
SendUncaught(delivery) == TelegramPost(delivery)

\* lines 280-304: `except Exception` turns every exception into False
send_telegram_message(delivery) ==
    IF TelegramPost(delivery).raised # NoRaise THEN Returned(FALSE) ELSE TelegramPost(delivery)

\* a run that skips Sunday only
SendDailyBriefingSundayOnly(d, delivery) ==
    IF d > 5
    THEN [success |-> TRUE, built |-> 0, sent |-> 0, sendRaised |-> NoRaise]
    ELSE LET sent == send_telegram_message(delivery)
         IN  [success |-> sent.raised = NoRaise /\ sent.value, built |-> 1, sent |-> 1,
              sendRaised |-> sent.raised]

\* lines 306-332, one run on weekday d: the value returned, the reports built,
\* the sends made and what the send raised; `except Exception` (line 330)
\* turns an exception of the try body into False
send_daily_briefing(d, delivery) ==
    IF d >= 5
    THEN [success |-> TRUE, built |-> 0, sent |-> 0, sendRaised |-> NoRaise]
    ELSE LET sent == send_telegram_message(delivery)
         IN  [success |-> sent.raised = NoRaise /\ sent.value, built |-> 1, sent |-> 1,
              sendRaised |-> sent.raised]

InitService ==
    /\ pc = "serving"
    /\ snap = <<>>
    /\ idx = 0
    /\ arg = NoArg
    /\ call = ""
    /\ out = NoOut
    /\ day \in 0..6
    /\ hits = 0
    /\ cycles = 0
    /\ built = 0
    /\ attempts = 0
    /\ resp = NoResponse

\* the run of send_daily_briefing inside a handler, and the handler's answer
Serve(path, secret, delivery, failureCode) ==
    LET run == send_daily_briefing(day, delivery)
    IN  /\ hits' = hits + 1
        /\ cycles' = cycles + 1
        /\ built' = built + run.built
        /\ attempts' = attempts + run.sent
        /\ resp' = [path |-> path, secret |-> secret,
                    status |-> IF run.success THEN "success" ELSE "error",
                    code |-> IF run.success THEN 200 ELSE failureCode,
                    started |-> TRUE, weekday |-> day, delivery |-> delivery,
                    built |-> run.built, sent |-> run.sent,
                    sendRaised |-> run.sendRaised, success |-> run.success]

\* POST /trigger-briefing (lines 356-382)
trigger_briefing ==
    /\ pc = "serving"
    /\ hits < MaxRequests
    /\ \E secret \in Secrets : \E delivery \in Deliveries :
           Serve("/trigger-briefing", secret, delivery, 500)
    /\ UNCHANGED <<pc, snap, idx, arg, call, out, day>>

\* GET /test-briefing (lines 384-403)
test_briefing ==
    /\ pc = "serving"
    /\ hits < MaxRequests
    /\ \E secret \in Secrets : \E delivery \in Deliveries :
           Serve("/test-briefing", secret, delivery, 200)
    /\ UNCHANGED <<pc, snap, idx, arg, call, out, day>>

\* midnight in KST
NextDay ==
    /\ pc = "serving"
    /\ hits < MaxRequests
    /\ day' = (day + 1) % 7
    /\ UNCHANGED <<pc, snap, idx, arg, call, out, hits, cycles, built, attempts, resp>>

NextService == trigger_briefing \/ test_briefing \/ NextDay

SpecService == InitService /\ [][NextService]_vars

(***************************************************************************)
(* The composite rules as the specification states them, on the raw        *)
(* snapshot, with every missing field read as 0 (4.2, 4.3)                 *)
(***************************************************************************)
\* the value of an observation, or `default` when the snapshot has none
StatedValue(raw_data, id, default) ==
    IF Lookup(raw_data, id).value.kind = "num" THEN Lookup(raw_data, id).value.n ELSE default

\* the percent change of an observation, or 0 when it is absent
StatedPercent(raw_data, id) ==
    IF Lookup(raw_data, id).change.kind = "dict" THEN Lookup(raw_data, id).change.n ELSE 0

StatedPhase(raw_data) ==
    LET sahm   == StatedValue(raw_data, "SAHMREALTIME", 0)
        spread == StatedValue(raw_data, "T10Y2Y", 0)
        unemp  == StatedValue(raw_data, "UNRATE", 0)
        growth == 4 * StatedPercent(raw_data, "GDPC1")
    IN  CASE sahm >= 50 -> Recession
          [] sahm < 50 /\ spread < 0 /\ unemp > 400 -> Slowdown
          [] sahm < 50 /\ ~(spread < 0 /\ unemp > 400)
             /\ growth > 300 /\ unemp < 350 -> Overheating
          [] sahm < 50 /\ ~(spread < 0 /\ unemp > 400)
             /\ ~(growth > 300 /\ unemp < 350)
             /\ growth > 200 /\ unemp < 400 -> Expansion
          [] sahm < 50 /\ ~(spread < 0 /\ unemp > 400)
             /\ ~(growth > 200 /\ unemp < 400)
             /\ growth > 0 /\ growth <= 200 -> ModerateGrowth
          [] OTHER -> Transition

StatedScore(raw_data) ==
    LET spread    == StatedValue(raw_data, "T10Y2Y", 100)
        sahm      == StatedValue(raw_data, "SAHMREALTIME", 0)
        unemp     == StatedValue(raw_data, "UNRATE", 0)
        inflation == 12 * StatedPercent(raw_data, "CPIAUCSL")
    IN  (CASE spread < -50 -> 3 [] spread >= -50 /\ spread < 0 -> 2
           [] spread >= 0 /\ spread < 50 -> 1 [] OTHER -> 0)
        + (CASE sahm >= 50 -> 3 [] sahm >= 30 /\ sahm < 50 -> 2
             [] sahm >= 20 /\ sahm < 30 -> 1 [] OTHER -> 0)
        + (CASE unemp > 500 -> 2 [] unemp > 400 /\ unemp <= 500 -> 1 [] OTHER -> 0)
        + (CASE inflation > 400 \/ inflation < 100 -> 2
             [] (inflation > 300 /\ inflation <= 400)
                \/ (inflation >= 100 /\ inflation < 150) -> 1
             [] OTHER -> 0)

StatedTier(score) ==
    CASE score * 10 >= 70 -> VeryHigh
      [] score * 10 >= 50 /\ score * 10 < 70 -> High
      [] score * 10 >= 30 /\ score * 10 < 50 -> Medium
      [] score * 10 >= 15 /\ score * 10 < 30 -> Low
      [] OTHER -> VeryLow

PhaseCalled == pc = "done" /\ call = "_determine_market_phase"

RiskCalled == pc = "done" /\ call = "_calculate_risk_level"

AnalyzeCalled == pc = "done" /\ call = "analyze_indicators"

\* C1: on every snapshot _determine_market_phase returns the phase of the
\* ordered first-match list (Recession, Slowdown, Overheating, Expansion,
\* ModerateGrowth, else Transition).
C1_PhaseIsFirstMatch ==
    PhaseCalled => out = Returned(StatedPhase(snap))

\* C1, on the snapshots where the call returns: the returned phase is the
\* phase of the ordered first-match list.
C1_PhaseIsFirstMatchWhenReturned ==
    (PhaseCalled /\ out.raised = NoRaise) => out.value = StatedPhase(snap)

\* C2: on every snapshot the collector produces, _determine_market_phase and
\* _calculate_risk_level complete without raising, also when GDPC1 or
\* CPIAUCSL carries a value and no change.
C2_JudgeNeverBlocked ==
    (PhaseCalled \/ RiskCalled) => out.raised = NoRaise

\* C3: on every snapshot the risk score is the sum of the four stated
\* contributions, lies in 0..10, and the tier is the stated tier of score*10.
C3_RiskIsStatedScore ==
    RiskCalled =>
        /\ out.raised = NoRaise
        /\ out.score = StatedScore(snap)
        /\ out.score \in 0..10
        /\ out.value = StatedTier(out.score)

\* C3, on the snapshots where the call returns: score and tier are the stated
\* ones.
C3_RiskIsStatedScoreWhenReturned ==
    (RiskCalled /\ out.raised = NoRaise) =>
        /\ out.score = StatedScore(snap)
        /\ out.score \in 0..10
        /\ out.value = StatedTier(out.score)

\* the snapshot without its i-th observation
Without(raw_data, i) == SubSeq(raw_data, 1, i - 1) \o SubSeq(raw_data, i + 1, Len(raw_data))

\* C4: removing an observation never increases the risk score, and the
\* snapshot without observations scores 0 points and is tier VeryLow.
C4_MissingDataAddsNoRisk ==
    (RiskCalled /\ out.raised = NoRaise) =>
        /\ \A i \in 1..Len(snap) :
               _calculate_risk_level(Without(snap, i)).raised = NoRaise
                   => _calculate_risk_level(Without(snap, i)).score <= out.score
        /\ snap = <<>> => (out.score = 0 /\ out.value = VeryLow)

\* the analysis of the snapshot without its i-th entry
Rest(i) == analyze_indicators(Without(snap, i))

\* C5: with one malformed entry (value missing, None or non-numeric, or name
\* missing) analyze_indicators does not raise, raises no alert for that
\* entry, and returns the alerts, phase, risk tier and recommendations of the
\* remaining indicators.
C5_MalformedEntryTolerated ==
    AnalyzeCalled =>
        \A i \in 1..Len(snap) :
            ( /\ Malformed(snap[i])
              /\ \A j \in 1..Len(snap) : j # i => ~Malformed(snap[j])
              /\ Rest(i).raised = NoRaise )
            => /\ out.raised = NoRaise
               /\ out.alerts = Rest(i).alerts
               /\ out.market_phase = Rest(i).market_phase
               /\ out.risk_level = Rest(i).risk_level
               /\ out.recommendations = Rest(i).recommendations

\* C6: a request to /trigger-briefing or /test-briefing that does not carry
\* the correct shared secret starts no briefing cycle and sends nothing.
C6_TriggerGuardedBySecret ==
    (resp.path \in {"/trigger-briefing", "/test-briefing"} /\ resp.secret # "correct")
        => (~resp.started /\ resp.sent = 0)

ClassifyCalled == pc = "done" /\ call = "_analyze_single_indicator"

\* the tier rule as stated: lower-is-worse for T10Y2Y, higher-is-worse for
\* the other indicators of the threshold table, Normal for every other id
StatedStatus(id, v) ==
    CASE id = "T10Y2Y" /\ v <= thresholds(id).critical -> "critical"
      [] id = "T10Y2Y" /\ v > thresholds(id).critical /\ v <= thresholds(id).warning -> "warning"
      [] id \in ThresholdIds \ {"T10Y2Y"} /\ v >= thresholds(id).critical -> "critical"
      [] id \in ThresholdIds \ {"T10Y2Y"} /\ v < thresholds(id).critical
         /\ v >= thresholds(id).warning -> "warning"
      [] OTHER -> "normal"

RecommendCalled == pc = "done" /\ call = "_generate_recommendations"

\* C8: no advisory string occurs twice in the list _generate_recommendations
\* returns.
C8_RecommendationsDeduplicated ==
    RecommendCalled =>
        \A i, j \in 1..Len(out.value) : i # j => out.value[i] # out.value[j]

\* the advisory the claim attaches to a catalog indicator
StatedAdvice(name) ==
    CASE name = indicators("T10Y2Y") -> YieldAdvice
      [] name = indicators("SAHMREALTIME") -> SahmAdvice
      [] name \in {indicators("MANEMP"), indicators("NMFBAI")} -> ISMAdvice
      [] OTHER -> ""

InList(x, list) == \E i \in 1..Len(list) : list[i] = x

\* C9: when T10Y2Y (under its catalog name), the Sahm indicator or an ISM
\* indicator is a Critical alert among the first two alerts of
\* analyze_indicators and fewer than 5 strings precede its advisory, the
\* recommendations contain that indicator's advisory string.
C9_CriticalAlertGivesAdvice ==
    (AnalyzeCalled /\ out.raised = NoRaise) =>
        \A k \in 1..Len(out.alerts) :
            ( /\ k <= 2
              /\ out.alerts[k].status = "critical"
              /\ StatedAdvice(out.alerts[k].indicator) # ""
              /\ Len(PhaseBlock(out.market_phase)) + Len(RiskBlockOf(out.risk_level))
                   + (k - 1) < 5 )
            => InList(StatedAdvice(out.alerts[k].indicator), out.recommendations)

\* the four blocks as stated, by phase and tier rather than by substring
StatedPhaseBlock(market_phase) ==
    CASE market_phase = Recession -> RecessionBlock
      [] market_phase = Slowdown -> SlowdownBlock
      [] market_phase = Overheating -> OverheatingBlock
      [] market_phase = Expansion -> ExpansionBlock
      [] OTHER -> <<>>

StatedRiskBlock(risk_level) ==
    IF risk_level \in {High, VeryHigh} THEN RiskBlock ELSE <<>>

StatedAlertAdvice(alerts, k) ==
    IF k <= Len(alerts) /\ alerts[k].status = "critical"
    THEN CASE Contains(MarkerSahm, alerts[k].indicator) -> <<SahmAdvice>>
           [] ~Contains(MarkerSahm, alerts[k].indicator)
              /\ Contains(MarkerYield, alerts[k].indicator) -> <<YieldAdvice>>
           [] ~Contains(MarkerSahm, alerts[k].indicator)
              /\ ~Contains(MarkerYield, alerts[k].indicator)
              /\ Contains(MarkerISM, alerts[k].indicator) -> <<ISMAdvice>>
           [] OTHER -> <<>>
    ELSE <<>>

StatedCatchAll(alerts) ==
    IF \E k \in 1..Len(alerts) : Contains(MarkerISM, alerts[k].indicator)
    THEN <<ISMCatchAll>>
    ELSE <<>>

StatedConcatenation ==
    StatedPhaseBlock(arg.market_phase) \o StatedRiskBlock(arg.risk_level)
        \o StatedAlertAdvice(arg.alerts, 1) \o StatedAlertAdvice(arg.alerts, 2)
        \o StatedCatchAll(arg.alerts)

\* C10: the returned list never has more than 5 entries and is the first
\* min(5, n) entries, in order, of phase block, risk block, alert block and
\* ISM catch-all concatenated.
C10_AtMostFiveInOrder ==
    RecommendCalled =>
        /\ Len(out.value) <= 5
        /\ Len(out.value) =
               (IF Len(StatedConcatenation) < 5 THEN Len(StatedConcatenation) ELSE 5)
        /\ \A i \in 1..Len(out.value) : out.value[i] = StatedConcatenation[i]

\* C10 witness: Recession, VeryHigh and two Critical alerts give eight
\* strings, of which five are returned.
C10_Witness ==
    /\ RecommendCalled
    /\ arg.market_phase = Recession
    /\ arg.risk_level = VeryHigh
    /\ Len(StatedConcatenation) = 8
    /\ Len(out.value) = 5

\* the positions of the snapshot whose entry has a value of stated tier
\* Warning or Critical
StatedAlerting(data) ==
    {i \in 1..Len(data) :
        /\ data[i].value.kind = "num"
        /\ StatedStatus(data[i].id, data[i].value.n) \in {"warning", "critical"}}

\* C11: in the result of analyze_indicators the alerts list has exactly one
\* entry for each snapshot indicator that has a value and whose status is
\* Warning or Critical, none for a Normal indicator, and the entries stand in
\* the snapshot's iteration order.
C11_AlertsAreTieredEntriesInOrder ==
    (AnalyzeCalled /\ out.raised = NoRaise) =>
        LET alerting == StatedAlerting(snap)
            Position(i) == Cardinality({j \in alerting : j <= i})
        IN  /\ Len(out.alerts) = Cardinality(alerting)
            /\ \A i \in alerting :
                   /\ out.alerts[Position(i)].indicator = snap[i].name
                   /\ out.alerts[Position(i)].status = StatedStatus(snap[i].id, snap[i].value.n)
                   /\ out.alerts[Position(i)].value = snap[i].value

\* C11 witness: a snapshot of two alerting indicators, both listed, the
\* first entry's alert first.
C11_Witness ==
    /\ AnalyzeCalled
    /\ out.raised = NoRaise
    /\ Len(snap) = 2
    /\ Len(out.alerts) = 2
    /\ out.alerts[1].indicator = snap[1].name
    /\ out.alerts[2].indicator = snap[2].name
    /\ snap[1].name # snap[2].name

\* the side the claim gives an indicator of the threshold table: the tier
\* rule's direction, a fall improving for the lower-is-worse T10Y2Y and a
\* rise improving for the higher-is-worse others
StatedSideByTierDirection(id, pct_change) ==
    CASE id = "T10Y2Y" /\ pct_change < -100 -> "improving"
      [] id = "T10Y2Y" /\ pct_change > 100 -> "deteriorating"
      [] id # "T10Y2Y" /\ pct_change > 100 -> "improving"
      [] id # "T10Y2Y" /\ pct_change < -100 -> "deteriorating"
      [] OTHER -> "neither"

\* C12: the improving and deteriorating lists follow the direction the tier
\* rule uses: for the lower-is-worse T10Y2Y a percent change < -1 is improving
\* and > 1 deteriorating, for the higher-is-worse thresholded indicators the
\* signs invert, and |percent change| <= 1 is in neither list.
C12_SummaryFollowsTierDirection ==
    (AnalyzeCalled /\ out.raised = NoRaise) =>
        \A i \in 1..Len(snap) :
            (snap[i].id \in ThresholdIds /\ snap[i].change.kind = "dict") =>
                LET side == StatedSideByTierDirection(snap[i].id, snap[i].change.n)
                IN  /\ InList(snap[i].name, out.summary.improving_indicators)
                           <=> side = "improving"
                    /\ InList(snap[i].name, out.summary.deteriorating_indicators)
                           <=> side = "deteriorating"

\* the side by the summary's own list: UNRATE, CPIAUCSL and ICSA improve by
\* falling, every other indicator by rising
StatedSideBySummaryList(entry) ==
    CASE entry.change.kind # "dict" -> "neither"
      [] entry.change.kind = "dict" /\ entry.id \in {"UNRATE", "CPIAUCSL", "ICSA"}
         /\ entry.change.n < -100 -> "improving"
      [] entry.change.kind = "dict" /\ entry.id \in {"UNRATE", "CPIAUCSL", "ICSA"}
         /\ entry.change.n > 100 -> "deteriorating"
      [] entry.change.kind = "dict" /\ entry.id \notin {"UNRATE", "CPIAUCSL", "ICSA"}
         /\ entry.change.n > 100 -> "improving"
      [] entry.change.kind = "dict" /\ entry.id \notin {"UNRATE", "CPIAUCSL", "ICSA"}
         /\ entry.change.n < -100 -> "deteriorating"
      [] OTHER -> "neither"

\* C12 as amended: the lists follow the summary's own list of lower-is-better
\* indicators (UNRATE, CPIAUCSL, ICSA: < -1 improving, > 1 deteriorating);
\* every other indicator, T10Y2Y, DFF and SAHMREALTIME included, is improving
\* when > 1 and deteriorating when < -1; |percent change| <= 1 or no change is
\* in neither list, and each list holds one name per such indicator.
C12_SummaryFollowsSummaryList ==
    (AnalyzeCalled /\ out.raised = NoRaise) =>
        /\ \A i \in 1..Len(snap) :
               /\ InList(snap[i].name, out.summary.improving_indicators)
                      <=> StatedSideBySummaryList(snap[i]) = "improving"
               /\ InList(snap[i].name, out.summary.deteriorating_indicators)
                      <=> StatedSideBySummaryList(snap[i]) = "deteriorating"
        /\ Len(out.summary.improving_indicators) =
               Cardinality({i \in 1..Len(snap) : StatedSideBySummaryList(snap[i]) = "improving"})
        /\ Len(out.summary.deteriorating_indicators) =
               Cardinality({i \in 1..Len(snap) : StatedSideBySummaryList(snap[i]) = "deteriorating"})

\* C12 witness: the spread and the unemployment rate both fell by more than
\* 1 percent; the spread is listed deteriorating, the unemployment rate
\* improving.
C12_Witness ==
    /\ AnalyzeCalled
    /\ out.raised = NoRaise
    /\ \E i, j \in 1..Len(snap) :
           /\ snap[i].id = "T10Y2Y" /\ snap[i].change = Change(-300)
           /\ snap[j].id = "UNRATE" /\ snap[j].change = Change(-200)
    /\ out.summary.deteriorating_indicators = <<indicators("T10Y2Y")>>
    /\ out.summary.improving_indicators = <<indicators("UNRATE")>>

\* C13: on a weekday the cycle attempts send_telegram_message exactly once;
\* however the delivery fails (transport exception, HTTP error status, an
\* answer whose ok is false) the send returns False without raising,
\* send_daily_briefing returns that False, and no cycle sends twice.
C13_DeliveryFailureReportedOnce ==
    /\ attempts <= cycles
    /\ (resp.started /\ resp.weekday < 5) =>
           /\ resp.sent = 1
           /\ resp.delivery # "ok" =>
                  /\ resp.sendRaised = NoRaise
                  /\ resp.success = FALSE
                  /\ resp.status = "error"

\* C13 witness: a weekday cycle whose POST ended in an HTTP error status:
\* one send, False returned, nothing raised.
C13_Witness ==
    /\ resp.started
    /\ resp.weekday < 5
    /\ resp.delivery = "http_error"
    /\ resp.sent = 1
    /\ resp.sendRaised = NoRaise
    /\ resp.success = FALSE

\* C18: on Saturday and Sunday (KST) send_daily_briefing builds no report,
\* makes no send attempt and returns True, so /trigger-briefing answers
\* success with nothing delivered; Monday to Friday a cycle makes exactly one
\* send attempt.
C18_WeekendSkipsAndReportsSuccess ==
    resp.started =>
        /\ resp.weekday >= 5 =>
               /\ resp.built = 0
               /\ resp.sent = 0
               /\ resp.success = TRUE
               /\ resp.path = "/trigger-briefing" => (resp.status = "success" /\ resp.code = 200)
        /\ resp.weekday < 5 => (resp.built = 1 /\ resp.sent = 1)

\* C18 witness: /trigger-briefing on a Saturday answers 200 success without a
\* send, on a day the POST would have failed.
C18_Witness ==
    /\ resp.started
    /\ resp.path = "/trigger-briefing"
    /\ resp.weekday = 5
    /\ resp.delivery = "transport_exception"
    /\ resp.sent = 0
    /\ attempts = 0
    /\ resp.status = "success"
    /\ resp.code = 200

\* Normal < Warning < Critical
Rank(status) == CASE status = "normal" -> 0 [] status = "warning" -> 1 [] status = "critical" -> 2

\* the status of the classified entry had its value been v
StatusAt(v) == _analyze_single_indicator(arg.id, [arg.data EXCEPT !.value = Num(v)]).status

C17_ISMLowIsWorse ==
    (ClassifyCalled /\ arg.id \in {"MANEMP", "NMFBAI"}) =>
        /\ arg.data.value.n < 4500 => out.status = "critical"
        /\ (arg.data.value.n >= 4500 /\ arg.data.value.n < 4800) => out.status = "warning"
        /\ arg.data.value.n >= 5000 => out.status = "normal"

\* whether any alert's indicator name contains 'ISM'
AnyISM(alerts) == \E k \in 1..Len(alerts) : Contains(MarkerISM, alerts[k].indicator)

\* the first two alerts of the call's list alone, and followed by one more
\* alert of the menu: every list with these first two alerts agrees with one
\* of them on whether an 'ISM' name is present
SameFirstTwo ==
    LET head == Take(arg.alerts, 2)
    IN  IF Len(head) < 2 THEN {head}
        ELSE {head} \cup {Append(head, a) : a \in AlertMenu}

\* C15: only the first two alerts reach the alert block: two alert lists that
\* agree on their first two entries and on whether any indicator name
\* contains 'ISM' give the same recommendations, whatever Critical alerts
\* stand at position 3 or later.
C15_OnlyFirstTwoAlertsInspected ==
    RecommendCalled =>
        \A other \in SameFirstTwo :
            AnyISM(other) = AnyISM(arg.alerts) =>
                _generate_recommendations(arg.market_phase, arg.risk_level, other) = out.value

\* C15 witness: a Critical Sahm alert at position 3 with room left in the
\* list, and no Sahm advisory in the result.
C15_Witness ==
    /\ RecommendCalled
    /\ Len(arg.alerts) = 3
    /\ arg.alerts[3].status = "critical"
    /\ Contains(MarkerSahm, arg.alerts[3].indicator)
    /\ Len(out.value) < 5
    /\ ~InList(SahmAdvice, out.value)

\* C16: on the empty snapshot analyze_indicators returns a complete result
\* without raising: no assessments, no alerts, no recommendations, phase
\* Transition, a risk tier of the defined set, and summary counts of 0.
C16_EmptySnapshotAnalysed ==
    (AnalyzeCalled /\ snap = <<>>) =>
        /\ out.raised = NoRaise
        /\ out.indicators = <<>>
        /\ out.alerts = <<>>
        /\ out.recommendations = <<>>
        /\ out.market_phase = Transition
        /\ out.risk_level \in RiskLevels
        /\ out.summary.total_indicators = 0
        /\ out.summary.updated_indicators = 0
        /\ out.summary.critical_indicators = <<>>
        /\ out.summary.improving_indicators = <<>>
        /\ out.summary.deteriorating_indicators = <<>>

\* C16 witness: the analysis of the empty snapshot returned, with the tier
\* Low that the defaults score.
C16_Witness ==
    /\ AnalyzeCalled
    /\ snap = <<>>
    /\ out.raised = NoRaise
    /\ out.risk_level = Low
    /\ out.risk_score = 2

\* C19: when the phase of a snapshot is Recession or Slowdown, the risk tier
\* computed on the same snapshot is Medium, High or Very High.
C19_DownturnPhaseHasRisk ==
    (PhaseCalled /\ out.raised = NoRaise /\ out.value \in {Recession, Slowdown}) =>
        /\ _calculate_risk_level(snap).raised = NoRaise
        /\ _calculate_risk_level(snap).value \in {Medium, High, VeryHigh}

\* C19 witness: a Slowdown snapshot that scores exactly the 3 points of
\* Medium (inverted spread 2, unemployment above 4 percent 1, inflation 0).
C19_Witness ==
    /\ PhaseCalled
    /\ out.raised = NoRaise
    /\ out.value = Slowdown
    /\ _calculate_risk_level(snap).score = 3
    /\ _calculate_risk_level(snap).value = Medium

\* the T10Y2Y value under classification
SpreadValue == arg.data.value.n

\* the risk score counts the spread as inverted: 2 or 3 points
InvertedInRisk(v) == SpreadPoints(v) >= 2

\* rule 2 of the phase list matches the spread, with Sahm below 0.5 and
\* unemployment 4.5
InvertedInPhase(v) == PhaseChain(0, Num(450), Num(0), Num(v)) = Returned(Slowdown)

\* the tier agrees with the risk score, the interpretation and rule 2
SpreadViewsAgree ==
    /\ out.status = "critical"
           <=> (SpreadPoints(SpreadValue) = 3
                /\ out.interpretation = "severe inversion - recession imminent")
    /\ out.status \in {"warning", "critical"}
           <=> (InvertedInRisk(SpreadValue) /\ InvertedInPhase(SpreadValue))

\* C20: for every T10Y2Y value the tier is Critical exactly when the risk
\* score awards the spread 3 points and _interpret_yield_curve returns the
\* severe-inversion text, and Warning or Critical exactly when the spread
\* counts as inverted (< 0) in the risk score and in rule 2 of the phase list.
C20_SpreadViewsAgree ==
    (ClassifyCalled /\ arg.id = "T10Y2Y") => SpreadViewsAgree

\* C20 as amended: the three views agree for every T10Y2Y value other than
\* exactly -0.5 and 0; at -0.5 the tier is Critical while the risk score
\* awards 2 points and the text is the plain inversion warning; at 0 the tier
\* is Warning while the spread is not inverted: 1 point, and rule 2 does not
\* match.
C20_SpreadViewsAgreeOffBreakpoints ==
    (ClassifyCalled /\ arg.id = "T10Y2Y") =>
        /\ SpreadValue \notin {-50, 0} => SpreadViewsAgree
        /\ SpreadValue = -50 =>
               /\ out.status = "critical"
               /\ SpreadPoints(SpreadValue) = 2
               /\ out.interpretation = "yield inversion - recession warning"
               /\ InvertedInPhase(SpreadValue)
        /\ SpreadValue = 0 =>
               /\ out.status = "warning"
               /\ SpreadPoints(SpreadValue) = 1
               /\ out.interpretation = "flattening - slowdown signal"
               /\ ~InvertedInPhase(SpreadValue)

\* C20 witness: the spread at exactly -0.5 classified Critical, with 2 points
\* in the risk score.
C20_Witness ==
    /\ ClassifyCalled
    /\ arg.id = "T10Y2Y"
    /\ SpreadValue = -50
    /\ out.status = "critical"
    /\ SpreadPoints(SpreadValue) = 2

\* C21: when the phase is Recession, Slowdown, Overheating or Expansion and
\* the risk tier is High or Very High, _generate_recommendations returns
\* exactly the phase's three strings followed by the two cautionary strings,
\* for every alert list: no alert advisory and no ISM catch-all is in the
\* output.
C21_AlertsMaskedByFullBlocks ==
    ( /\ RecommendCalled
      /\ arg.market_phase \in {Recession, Slowdown, Overheating, Expansion}
      /\ arg.risk_level \in {High, VeryHigh} )
    => /\ out.value = StatedPhaseBlock(arg.market_phase) \o RiskBlock
       /\ Len(StatedPhaseBlock(arg.market_phase)) = 3
       /\ ~InList(SahmAdvice, out.value)
       /\ ~InList(YieldAdvice, out.value)
       /\ ~InList(ISMAdvice, out.value)
       /\ ~InList(ISMCatchAll, out.value)

\* C21 witness: Slowdown at tier High with a Critical Sahm alert first and an
\* ISM alert second: the five strings of the two blocks, no advisory.
C21_Witness ==
    /\ RecommendCalled
    /\ arg.market_phase = Slowdown
    /\ arg.risk_level = High
    /\ Len(arg.alerts) >= 2
    /\ arg.alerts[1].status = "critical"
    /\ Contains(MarkerSahm, arg.alerts[1].indicator)
    /\ Contains(MarkerISM, arg.alerts[2].indicator)
    /\ out.value = SlowdownBlock \o RiskBlock

=============================================================================
